---- MODULE Spec2Model ----
(***************************************************************************)
(* Model of src/main.py: the PII scrubbing service.                        *)
(*                                                                         *)
(* The module-level statements (lines 32-60) build the recognizer          *)
(* registry PII_REG and read the expected API key; they run once, at       *)
(* import, before uvicorn serves the first request (line 136).  Each POST  *)
(* /scrub request then goes through the get_api_key dependency (62-66),    *)
(* the scrub_text handler (110-119) and the scrubber coroutine (79-108).   *)
(*                                                                         *)
(* A transcript is a sequence of tokens.  A token is either a plain word   *)
(* "w" or the name of an entity type, standing for a piece of text that    *)
(* the recognizer of that entity type matches.  The two engine calls of    *)
(* scrubber are stepped one recognizer / one detection at a time, and      *)
(* either may raise at any step.                                           *)
(*                                                                         *)
(* The handlers are coroutines on one event loop: another request can run  *)
(* only where a coroutine awaits.  scrub_text awaits scrubber (line 113)   *)
(* and the framework awaits the dependency and the handler; scrubber       *)
(* itself (lines 83-108) contains no await, so its body runs without       *)
(* another request's code in between.                                      *)
(***************************************************************************)
EXTENDS Integers, Sequences, FiniteSets, TLC

\* Number of requests the clients send.
NReq == 2

Requests == 1..NReq

\* Values that stand for Python's None / an absent header / an unset local.
None == "None"
Absent == "absent"
NoVal == "unset"

\* The constant redaction literal of the DEFAULT operator (line 106).
REDACTED == "<REDACTED>"

\* Recognizers that load_predefined_recognizers puts in a fresh registry.
Predefined == <<"EMAIL_ADDRESS">>

\* Entity names recognizers.json may define (the file is not in the source).
CustomLabels == {"POSTCODE"}

\* Languages of the configured NLP engine (line 37).
SupportedLangs == {"en"}
Langs == {"en", "fr"}

\* Values of the x-api-key header, and of the SCRUB_API_KEY variable.
Keys == {"k1", "k2"}
EnvKeys == {"k1"}

RECURSIVE SeqsUpTo(_, _)
SeqsUpTo(S, n) ==
    IF n = 0 THEN {<<>>}
    ELSE LET shorter == SeqsUpTo(S, n - 1)
         IN  shorter \cup {Append(s, x) : s \in {t \in shorter : Len(t) = n - 1}, x \in S}

\* Transcripts the clients send: empty, with one entity and a plain word,
\* with two entities of different recognizers.
Texts == {<<>>, <<"POSTCODE", "w">>, <<"EMAIL_ADDRESS", "POSTCODE">>}

Injective(s) == \A a, b \in 1..Len(s) : s[a] = s[b] => a = b

\* Possible contents of recognizers.json: a JSON object, so its keys are
\* distinct; json.load keeps the order of the file.
RecognizerFiles == {s \in SeqsUpTo(CustomLabels, Cardinality(CustomLabels)) : Injective(s)}

VARIABLES
    initpc,             \* position in the module-level code
    PII_REG,            \* the registry: sequence of recognizer names
    recognizers,        \* the loaded recognizers.json: sequence of its keys
    EXPECTED_API_KEY,   \* os.environ.get('SCRUB_API_KEY')
    pc,                 \* per request: position in dependency/handler
    request,            \* per request: what the client sent
    x_api_key,          \* per request: the value get_api_key returned
    analyzer_results,   \* per request: detections collected by analyze
    idx,                \* per request: loop index inside the engine call
    out,                \* per request: the anonymizer's working text
    result,             \* per request: the value scrubber returned
    exc,                \* per request: the exception raised inside scrubber
    responses,          \* per request: the responses sent, in order
    running             \* the request whose scrubber body the event loop runs, or 0

vars == <<initpc, PII_REG, recognizers, EXPECTED_API_KEY, pc, request, x_api_key,
          analyzer_results, idx, out, result, exc, responses, running>>

startup == <<initpc, PII_REG, recognizers, EXPECTED_API_KEY>>
locals == <<analyzer_results, idx, out, result, exc>>

NoRequest == [header |-> Absent, valid |-> FALSE, transcript |-> <<>>, lang |-> "en"]

Init ==
    /\ initpc = "load_predefined"
    /\ PII_REG = <<>>
    /\ recognizers \in RecognizerFiles
    /\ EXPECTED_API_KEY = NoVal
    /\ pc = [r \in Requests |-> "new"]
    /\ request = [r \in Requests |-> NoRequest]
    /\ x_api_key = [r \in Requests |-> NoVal]
    /\ analyzer_results = [r \in Requests |-> {}]
    /\ idx = [r \in Requests |-> 0]
    /\ out = [r \in Requests |-> NoVal]
    /\ result = [r \in Requests |-> NoVal]
    /\ exc = [r \in Requests |-> NoVal]
    /\ responses = [r \in Requests |-> <<>>]
    /\ running = 0

----------------------------------------------------------------------------
\* Module-level initialisation.

\* PII_REG.load_predefined_recognizers()
LoadPredefined ==
    /\ initpc = "load_predefined"
    /\ PII_REG' = PII_REG \o Predefined
    /\ initpc' = "add_recognizers"
    /\ UNCHANGED <<recognizers, EXPECTED_API_KEY, pc, request, x_api_key, locals, responses, running>>

\* One iteration of the loop over recognizers.items(): add_recognizer.
AddRecognizer ==
    /\ initpc = "add_recognizers"
    /\ Len(PII_REG) - Len(Predefined) < Len(recognizers)
    /\ PII_REG' = Append(PII_REG, recognizers[Len(PII_REG) - Len(Predefined) + 1])
    /\ UNCHANGED <<initpc, recognizers, EXPECTED_API_KEY, pc, request, x_api_key, locals, responses, running>>

\* The loop is exhausted; EXPECTED_API_KEY = os.environ.get('SCRUB_API_KEY'),
\* which is None when the variable is not set.  The rest of the module only
\* defines functions, and uvicorn.run starts serving.
ReadExpectedKey ==
    /\ initpc = "add_recognizers"
    /\ Len(PII_REG) - Len(Predefined) = Len(recognizers)
    /\ \E v \in EnvKeys \cup {None} : EXPECTED_API_KEY' = v
    /\ initpc' = "serving"
    /\ UNCHANGED <<PII_REG, recognizers, pc, request, x_api_key, locals, responses, running>>

----------------------------------------------------------------------------
\* The two engines, as far as scrubber uses them.

\* What one recognizer of the registry detects in a text: one detection per
\* token that is an instance of the recognizer's entity type.  Offsets are
\* 0-based and half-open, as in a RecognizerResult.
RecognizerResults(rec, text, lang) ==
    IF lang \in SupportedLangs
    THEN {[start |-> i - 1, end |-> i, entity_type |-> rec] :
              i \in {n \in 1..Len(text) : text[n] = rec}}
    ELSE {}

\* The detections in ascending start order.
SortedByStart(S) ==
    CHOOSE s \in [1..Cardinality(S) -> S] :
        /\ \A d \in S : \E i \in 1..Cardinality(S) : s[i] = d
        /\ \A i, j \in 1..Cardinality(S) : i < j => s[i].start <= s[j].start

\* The DEFAULT operator: replace the detected span by the literal.
Replace(text, d) == [text EXCEPT ![d.start + 1] = REDACTED]

\* analyze over a whole registry, and anonymize over a whole detection set.
Analyze(text, lang, registry) ==
    UNION {RecognizerResults(registry[j], text, lang) : j \in 1..Len(registry)}

RECURSIVE ReplaceAll(_, _, _)
ReplaceAll(text, dets, n) ==
    IF n = 0 THEN text ELSE Replace(ReplaceAll(text, dets, n - 1), dets[n])

Anonymize(text, S) == ReplaceAll(text, SortedByStart(S), Cardinality(S))

\* scrubber run by itself over a given registry.
Scrubber(transcript, lang, registry) == Anonymize(transcript, Analyze(transcript, lang, registry))

----------------------------------------------------------------------------
\* One POST /scrub request.

Respond(r, response) == responses' = [responses EXCEPT ![r] = Append(@, response)]

\* engine, analyzer and the other locals of scrubber and scrub_text go out
\* of scope when the handler returns or raises.
DropLocals(r) ==
    /\ x_api_key' = [x_api_key EXCEPT ![r] = NoVal]
    /\ analyzer_results' = [analyzer_results EXCEPT ![r] = {}]
    /\ idx' = [idx EXCEPT ![r] = 0]
    /\ out' = [out EXCEPT ![r] = NoVal]
    /\ result' = [result EXCEPT ![r] = NoVal]
    /\ exc' = [exc EXCEPT ![r] = NoVal]

\* get_api_key written as `if EXPECTED_API_KEY and x_api_key != EXPECTED_API_KEY`:
\* with no key configured every caller passes.
GetApiKeyOpenWhenUnset(r) ==
    /\ initpc = "serving"
    /\ pc[r] = "new"
    /\ \E h \in Keys \cup {Absent} :
        /\ request' = [request EXCEPT ![r].header = h]
        /\ IF h = Absent
           THEN /\ Respond(r, [status |-> 422, content |-> [detail |-> "validation error"]])
                /\ pc' = [pc EXCEPT ![r] = "done"]
                /\ UNCHANGED x_api_key
           ELSE IF EXPECTED_API_KEY # None /\ h # EXPECTED_API_KEY
           THEN /\ Respond(r, [status |-> 403, content |-> [detail |-> "Forbidden"]])
                /\ pc' = [pc EXCEPT ![r] = "done"]
                /\ UNCHANGED x_api_key
           ELSE /\ x_api_key' = [x_api_key EXCEPT ![r] = h]
                /\ pc' = [pc EXCEPT ![r] = "validate_body"]
                /\ UNCHANGED responses
    /\ UNCHANGED <<startup, locals, running>>

\* The dependency of scrub_text, for a request with any x-api-key header or
\* none.  Header() is a required parameter: without the header the framework
\* answers 422 and get_api_key is not called.
GetApiKey(r) ==
    /\ initpc = "serving"
    /\ pc[r] = "new"
    /\ \E h \in Keys \cup {Absent} :
        /\ request' = [request EXCEPT ![r].header = h]
        /\ IF h = Absent
           THEN /\ Respond(r, [status |-> 422, content |-> [detail |-> "validation error"]])
                /\ pc' = [pc EXCEPT ![r] = "done"]
                /\ UNCHANGED x_api_key
           ELSE IF h # EXPECTED_API_KEY
           THEN /\ Respond(r, [status |-> 403, content |-> [detail |-> "Forbidden"]])
                /\ pc' = [pc EXCEPT ![r] = "done"]
                /\ UNCHANGED x_api_key
           ELSE /\ x_api_key' = [x_api_key EXCEPT ![r] = h]
                /\ pc' = [pc EXCEPT ![r] = "validate_body"]
                /\ UNCHANGED responses
    /\ UNCHANGED <<startup, locals, running>>

\* data: DataModel.  The body either fits DataModel (a transcript and a
\* lang) or does not; a body that does not fit is answered 422.
ValidateBody(r) ==
    /\ pc[r] = "validate_body"
    /\ \/ \E t \in Texts, l \in Langs :
            /\ request' = [request EXCEPT ![r].valid = TRUE, ![r].transcript = t, ![r].lang = l]
            /\ pc' = [pc EXCEPT ![r] = "scrubber"]
            /\ UNCHANGED <<responses, x_api_key>>
       \/ /\ Respond(r, [status |-> 422, content |-> [detail |-> "validation error"]])
          /\ pc' = [pc EXCEPT ![r] = "done"]
          /\ x_api_key' = [x_api_key EXCEPT ![r] = NoVal]
          /\ UNCHANGED request
    /\ UNCHANGED <<startup, locals, running>>

\* scrubber written to register the custom recognizers itself, on every call.
ScrubberStartRegisters(r) ==
    /\ pc[r] = "scrubber"
    /\ running = 0
    /\ running' = r
    /\ PII_REG' = PII_REG \o recognizers
    /\ pc' = [pc EXCEPT ![r] = "analyze"]
    /\ idx' = [idx EXCEPT ![r] = 0]
    /\ analyzer_results' = [analyzer_results EXCEPT ![r] = {}]
    /\ UNCHANGED <<initpc, recognizers, EXPECTED_API_KEY, request, x_api_key, out, result, exc, responses>>

\* scrub_text awaits scrubber, which builds its two engines over the shared
\* registry (lines 83-84).
ScrubberStart(r) ==
    /\ pc[r] = "scrubber"
    /\ running = 0
    /\ running' = r
    /\ pc' = [pc EXCEPT ![r] = "analyze"]
    /\ idx' = [idx EXCEPT ![r] = 0]
    /\ analyzer_results' = [analyzer_results EXCEPT ![r] = {}]
    /\ UNCHANGED <<startup, request, x_api_key, out, result, exc, responses>>

\* analyzer.analyze: run the next recognizer of the registry on the text.
AnalyzeStep(r) ==
    /\ pc[r] = "analyze"
    /\ idx[r] < Len(PII_REG)
    /\ analyzer_results' = [analyzer_results EXCEPT ![r] =
           @ \cup RecognizerResults(PII_REG[idx[r] + 1], request[r].transcript, request[r].lang)]
    /\ idx' = [idx EXCEPT ![r] = @ + 1]
    /\ UNCHANGED <<startup, pc, request, x_api_key, out, result, exc, responses, running>>

\* analyze returns; engine.anonymize starts from the original text.
AnalyzeReturn(r) ==
    /\ pc[r] = "analyze"
    /\ idx[r] >= Len(PII_REG)
    /\ pc' = [pc EXCEPT ![r] = "anonymize"]
    /\ idx' = [idx EXCEPT ![r] = 0]
    /\ out' = [out EXCEPT ![r] = request[r].transcript]
    /\ UNCHANGED <<startup, request, x_api_key, analyzer_results, result, exc, responses, running>>

\* engine.anonymize: replace the next detection.
AnonymizeStep(r) ==
    /\ pc[r] = "anonymize"
    /\ idx[r] < Cardinality(analyzer_results[r])
    /\ out' = [out EXCEPT ![r] = Replace(@, SortedByStart(analyzer_results[r])[idx[r] + 1])]
    /\ idx' = [idx EXCEPT ![r] = @ + 1]
    /\ UNCHANGED <<startup, pc, request, x_api_key, analyzer_results, result, exc, responses, running>>

\* anonymize returns and scrubber returns result.text.
ScrubberReturn(r) ==
    /\ pc[r] = "anonymize"
    /\ idx[r] >= Cardinality(analyzer_results[r])
    /\ result' = [result EXCEPT ![r] = out[r]]
    /\ pc' = [pc EXCEPT ![r] = "return"]
    /\ running' = 0
    /\ UNCHANGED <<startup, request, x_api_key, analyzer_results, idx, out, exc, responses>>

\* Either engine call raises, at any point of its work; the exception
\* leaves scrubber.
Raise(r) ==
    /\ pc[r] \in {"analyze", "anonymize"}
    /\ exc' = [exc EXCEPT ![r] = pc[r]]
    /\ pc' = [pc EXCEPT ![r] = "except"]
    /\ running' = 0
    /\ UNCHANGED <<startup, request, x_api_key, analyzer_results, idx, out, result, responses>>

\* return JSONResponse(content={'scrubbed_text': scrubbed})
ScrubTextReturn(r) ==
    /\ pc[r] = "return"
    /\ Respond(r, [status |-> 200, content |-> [scrubbed_text |-> result[r]]])
    /\ pc' = [pc EXCEPT ![r] = "done"]
    /\ DropLocals(r)
    /\ UNCHANGED <<startup, request, running>>

\* scrub_text written to answer with whatever text the anonymizer had
\* produced when the exception was raised.
ScrubTextExceptPartial(r) ==
    /\ pc[r] = "except"
    /\ IF out[r] # NoVal
       THEN Respond(r, [status |-> 200, content |-> [scrubbed_text |-> out[r]]])
       ELSE Respond(r, [status |-> 500, content |-> [detail |-> <<"Error processing text: ", exc[r]>>]])
    /\ pc' = [pc EXCEPT ![r] = "done"]
    /\ DropLocals(r)
    /\ UNCHANGED <<startup, request, running>>

\* except Exception as e: raise HTTPException(500, 'Error processing text: ...')
ScrubTextExcept(r) ==
    /\ pc[r] = "except"
    /\ Respond(r, [status |-> 500, content |-> [detail |-> <<"Error processing text: ", exc[r]>>]])
    /\ pc' = [pc EXCEPT ![r] = "done"]
    /\ DropLocals(r)
    /\ UNCHANGED <<startup, request, running>>

Next ==
    \/ LoadPredefined
    \/ AddRecognizer
    \/ ReadExpectedKey
    \/ \E r \in Requests : GetApiKey(r)
    \/ \E r \in Requests : ValidateBody(r)
    \/ \E r \in Requests : ScrubberStart(r)
    \/ \E r \in Requests : AnalyzeStep(r)
    \/ \E r \in Requests : AnalyzeReturn(r)
    \/ \E r \in Requests : AnonymizeStep(r)
    \/ \E r \in Requests : ScrubberReturn(r)
    \/ \E r \in Requests : Raise(r)
    \/ \E r \in Requests : ScrubTextReturn(r)
    \/ \E r \in Requests : ScrubTextExcept(r)

Spec == Init /\ [][Next]_vars

----------------------------------------------------------------------------
\* Properties.

InScrubText(r) == pc[r] \in {"scrubber", "analyze", "anonymize", "return", "except"}

Answered(r, code) == \E i \in 1..Len(responses[r]) : responses[r][i].status = code

\* C4: scrub_text, and with it scrubber, runs for a request only after
\* get_api_key found the supplied x-api-key equal to EXPECTED_API_KEY; a
\* request whose key differs (also when EXPECTED_API_KEY is None) gets the
\* single answer 403 Forbidden and never reaches scrubber or a 200/500 answer.
C4_AuthPrecedesCore ==
    \A r \in Requests :
        /\ InScrubText(r) =>
               /\ request[r].header = EXPECTED_API_KEY
               /\ x_api_key[r] = EXPECTED_API_KEY
        /\ (Answered(r, 200) \/ Answered(r, 500)) => request[r].header = EXPECTED_API_KEY
        /\ (pc[r] # "new" /\ request[r].header \notin {Absent, EXPECTED_API_KEY}) =>
               /\ pc[r] = "done"
               /\ responses[r] = <<[status |-> 403, content |-> [detail |-> "Forbidden"]]>>

\* One request with a wrong key was turned away with 403 while another, with
\* the right key, is inside scrubber.
C4_Witness ==
    \E r, s \in Requests :
        /\ Answered(r, 403)
        /\ request[r].header \in Keys
        /\ pc[s] = "analyze"
        /\ request[s].header = EXPECTED_API_KEY

\* Whether some recognizer of the registry detects the token.
Detected(tok, lang) ==
    /\ lang \in SupportedLangs
    /\ \E j \in 1..Len(PII_REG) : PII_REG[j] = tok

\* The text has every detected token replaced and every other token kept.
CompleteRedaction(text, req) ==
    /\ Len(text) = Len(req.transcript)
    /\ \A i \in 1..Len(text) :
           text[i] = IF Detected(req.transcript[i], req.lang) THEN REDACTED ELSE req.transcript[i]

\* C5: an authenticated request gets at most one response, exactly one once
\* it has ended, and that response is either 200 with the completely redacted
\* text or an error (500 for a failure inside scrubber, 422 for a body that
\* does not validate) whose content is a detail and no text.
C5_CompleteOrError ==
    \A r \in Requests :
        /\ Len(responses[r]) <= 1
        /\ pc[r] = "done" => Len(responses[r]) = 1
        /\ (Len(responses[r]) = 1 /\ request[r].header = EXPECTED_API_KEY) =>
               LET resp == responses[r][1] IN
               \/ /\ resp.status = 200
                  /\ DOMAIN resp.content = {"scrubbed_text"}
                  /\ CompleteRedaction(resp.content.scrubbed_text, request[r])
               \/ /\ resp.status = 500
                  /\ DOMAIN resp.content = {"detail"}
                  /\ resp.content.detail \in {<<"Error processing text: ", e>> : e \in {"analyze", "anonymize"}}
               \/ /\ resp.status = 422
                  /\ ~request[r].valid
                  /\ resp.content = [detail |-> "validation error"]

\* One request was answered 200 with a redacted text, and another failed
\* inside anonymize with one of its two detections already replaced and is
\* about to be answered.
C5_Witness ==
    \E r, s \in Requests :
        /\ Answered(r, 200)
        /\ \E i \in 1..Len(request[r].transcript) : responses[r][1].content.scrubbed_text[i] = REDACTED
        /\ pc[s] = "except"
        /\ exc[s] = "anonymize"
        /\ idx[s] = 1
        /\ Cardinality(analyzer_results[s]) = 2

\* The registry as the module-level code leaves it.
RegistryAtReady == Predefined \o recognizers

\* C10: once initialization is over the registry keeps the recognizers, in
\* the order, that initialization gave it, whatever requests run; a request
\* that has ended leaves none of its locals behind; and the text of a 200
\* response is the text scrubber yields for that request run by itself.
C10_RegistryReadOnly ==
    initpc = "serving" =>
        /\ PII_REG = RegistryAtReady
        /\ \A r \in Requests :
            /\ pc[r] \in {"new", "done"} =>
                   /\ x_api_key[r] = NoVal
                   /\ analyzer_results[r] = {}
                   /\ idx[r] = 0
                   /\ out[r] = NoVal
                   /\ result[r] = NoVal
                   /\ exc[r] = NoVal
            /\ Answered(r, 200) =>
                   responses[r][1].content.scrubbed_text =
                       Scrubber(request[r].transcript, request[r].lang, RegistryAtReady)

\* Two requests are in flight over a registry with a custom recognizer: one
\* has its redacted text but is not yet answered, the other is in anonymize.
C10_Witness ==
    \E r, s \in Requests :
        /\ r # s
        /\ Len(recognizers) > 0
        /\ pc[r] = "return"
        /\ \E i \in 1..Len(result[r]) : result[r][i] = REDACTED
        /\ pc[s] = "anonymize"
        /\ idx[s] > 0

====
